---- MODULE Spec2Model ----
(***************************************************************************)
(* SPK archive helper (src/helper.py): the archive layout, extract() and   *)
(* pack(), modelled at byte level.  A file name is the sequence of the     *)
(* bytes of its UTF-8 encoding (ASCII only, so one byte per character), a  *)
(* file's content is a sequence of bytes, a directory is a map from        *)
(* relative paths to contents and the archive is one sequence of bytes.    *)
(* Sub-directories are implicit in the paths (parents are created on       *)
(* demand, helper.py:71).                                                  *)
(***************************************************************************)
EXTENDS Integers, Sequences, FiniteSets, TLC

VARIABLES dirs, spk, made, pk, ex, ops, edits, sz

vars == <<dirs, spk, made, pk, ex, ops, edits, sz>>

mainVars == <<dirs, spk, made, pk, ex, ops, edits>>

(***************************************************************************)
(* Bounds of the model.                                                    *)
(***************************************************************************)
\* pack/extract calls in one behaviour
MaxOps == 3
\* edits of the file system made between calls (add/remove a file, damage the archive)
MaxEdits == 1
\* files in the input directory at the start
MaxFiles == 2
\* files handed to the size-level packer
MaxSizeFiles == 2

(***************************************************************************)
(* Sequences of bytes.                                                     *)
(***************************************************************************)
RECURSIVE Sum(_)
Sum(s) == IF s = <<>> THEN 0 ELSE Head(s) + Sum(Tail(s))

\* f.seek(pos); f.read(n): the n bytes after the first pos, fewer at the end of file
ReadAt(bytes, pos, n) ==
    IF pos >= Len(bytes) \/ n <= 0 THEN <<>>
    ELSE SubSeq(bytes, pos + 1, IF n > Len(bytes) - pos THEN Len(bytes) ELSE pos + n)

Zeros(n) == [i \in 1..n |-> 0]

\* bytes.rstrip(b'\0')
RECURSIVE RStripNul(_)
RStripNul(s) ==
    IF s # <<>> /\ s[Len(s)] = 0 THEN RStripNul(SubSeq(s, 1, Len(s) - 1)) ELSE s

HasNul(s) == \E i \in 1..Len(s) : s[i] = 0

(***************************************************************************)
(* Fixed-width integer fields (ctypes).  A 32-bit quantity that pack       *)
(* computes is kept as two 16-bit limbs <<hi, lo>> with value              *)
(* hi * 2^16 + lo, so that sizes of 4 GiB and more can be written down.    *)
(***************************************************************************)
B16 == 2^16

Big(n) == <<n \div B16, n % B16>>

BigAdd(a, b) == <<a[1] + b[1] + ((a[2] + b[2]) \div B16), (a[2] + b[2]) % B16>>

BigLess(a, b) == a[1] < b[1] \/ (a[1] = b[1] /\ a[2] < b[2])

BigLeq(a, b) == a = b \/ BigLess(a, b)

\* ctypes.c_uint16(v): no overflow check, the low 16 bits are kept
c_uint16(v) == v % B16

\* ctypes.c_uint32(v): no overflow check, the low 32 bits are kept
c_uint32(v) == <<v[1] % B16, v[2]>>

\* the bytes of a c_uint16 / c_uint32 field in memory (little-endian host)
LE16(v) == <<v % 256, v \div 256>>

LE32(v) == LE16(v[2]) \o LE16(v[1])

\* from_buffer_copy: the value of a 2-byte / 4-byte field at 0-based position pos
U16At(bytes, pos) == bytes[pos + 1] + 256 * bytes[pos + 2]

U32At(bytes, pos) == U16At(bytes, pos) + B16 * U16At(bytes, pos + 2)

(***************************************************************************)
(* The two structures: field widths in bytes, _pack_ = 1 (no padding).     *)
(***************************************************************************)
\* a header whose reserved field is one byte
SPKHeaderFieldsShort == <<4, 2, 4, 4, 1>>

\* signature, version, num_files, index_offset, reserved
SPKHeaderFields == <<4, 2, 4, 4, 2>>

\* version, filename_size, offset, file_size, compress_size
SPKEntryHeaderFields == <<2, 2, 4, 4, 4>>

\* ctypes.sizeof of a packed structure
SizeOf(fields) == Sum(fields)

\* the offset of the k-th field of a packed structure
FieldAt(fields, k) == Sum(SubSeq(fields, 1, k - 1))

HeaderSize == SizeOf(SPKHeaderFields)

EntrySize == SizeOf(SPKEntryHeaderFields)

\* b'.spk'
Signature == <<46, 115, 112, 107>>

\* SPKHeader(signature, version, num_files, index_offset) as bytes; reserved stays 0
SPKHeader(signature, version, num_files, index_offset) ==
    ReadAt(signature \o Zeros(4), 0, SPKHeaderFields[1]) \o LE16(c_uint16(version))
        \o LE32(c_uint32(num_files)) \o LE32(c_uint32(index_offset))
        \o Zeros(SPKHeaderFields[5])

\* a placeholder that already carries the signature and the version
SPKHeaderDefaultSigned == SPKHeader(Signature, 1, Big(0), Big(0))

\* SPKHeader(): every field zero
SPKHeaderDefault == Zeros(HeaderSize)

\* SPKEntryHeader(...): the values the five fields hold after construction
SPKEntryHeader(version, filename_size, offset, file_size, compress_size) ==
    [version |-> c_uint16(version), filename_size |-> c_uint16(filename_size),
     offset |-> c_uint32(offset), file_size |-> c_uint32(file_size),
     compress_size |-> c_uint32(compress_size)]

\* f.write(entry): the 16 bytes of an entry header
EntryBytes(e) ==
    LE16(e.version) \o LE16(e.filename_size) \o LE32(e.offset)
        \o LE32(e.file_size) \o LE32(e.compress_size)

\* the signature field read back: a c_char array's value stops at the first NUL
SigValue(bytes) ==
    LET raw == ReadAt(bytes, 0, SPKHeaderFields[1])
        cut == {i \in 1..Len(raw) : raw[i] = 0}
    IN  IF cut = {} THEN raw
        ELSE SubSeq(raw, 1, (CHOOSE i \in cut : \A j \in cut : i <= j) - 1)

(***************************************************************************)
(* zlib, an external library: a framed stream with a check value.  The     *)
(* stream is a method byte, the length of the data, the data and a         *)
(* checksum; decompress rejects a wrong method byte, a truncated stream    *)
(* and a wrong checksum, and ignores bytes after the end of the stream.    *)
(***************************************************************************)
Checksum(data) == (1 + Sum(data)) % 128

Compress(data) == <<120, Len(data)>> \o data \o <<Checksum(data)>>

Decompress(raw) ==
    IF Len(raw) < 3 \/ raw[1] # 120 \/ Len(raw) < raw[2] + 3
    THEN [ok |-> FALSE, data |-> <<>>]
    ELSE LET data == SubSeq(raw, 3, raw[2] + 2)
         IN  IF raw[raw[2] + 3] = Checksum(data)
             THEN [ok |-> TRUE, data |-> data]
             ELSE [ok |-> FALSE, data |-> <<>>]

(***************************************************************************)
(* Paths and directories.                                                  *)
(***************************************************************************)
\* '__files__.txt'
MANIFEST == <<95, 95, 102, 105, 108, 101, 115, 95, 95, 46, 116, 120, 116>>

\* 'a.t', 'b' (a name without '.'), 's/c.b' (a file in a sub-directory), 'z.o'
NameA == <<97, 46, 116>>

NameB == <<98>>

NameC == <<115, 47, 99, 46, 98>>

NameZ == <<122, 46, 111>>

UserNames == {NameA, NameB, NameC}

Contents == {<<>>, <<1, 0>>}

\* the manifests a directory may hold before the first call
ManifestOpts == {<<NameB, NameA>>}

DirNames == {"D", "E"}

Range(s) == {s[i] : i \in 1..Len(s)}

NoFiles == [n \in {} |-> <<>>]

NoDir == [exists |-> FALSE, files |-> NoFiles]

Put(files, name, data) ==
    [n \in DOMAIN files \cup {name} |-> IF n = name THEN data ELSE files[n]]

Drop(files, names) == [n \in DOMAIN files \ names |-> files[n]]

\* pathlib's .name: what follows the last '/'
LastComponent(name) ==
    LET cut == {i \in 1..Len(name) : name[i] = 47}
    IN  IF cut = {} THEN name
        ELSE SubSeq(name, (CHOOSE i \in cut : \A j \in cut : j <= i) + 1, Len(name))

\* the pattern '*.*' on a name
MatchesStarDotStar(name) == \E i \in 1..Len(name) : name[i] = 46

\* dir_path.glob('**/*.*') filtered by is_file(): the paths of the walk
Walk(dir) ==
    IF dir.exists
    THEN {n \in DOMAIN dir.files : MatchesStarDotStar(LastComponent(n))}
    ELSE {}

\* '\n'.join(files)
RECURSIVE JoinLines(_)
JoinLines(files) ==
    IF files = <<>> THEN <<>>
    ELSE IF Len(files) = 1 THEN files[1]
    ELSE files[1] \o <<10>> \o JoinLines(Tail(files))

\* f.read().splitlines() of a text file: lines end at '\n', '\r' or '\r\n'
RECURSIVE SplitLines(_)
SplitLines(text) ==
    IF text = <<>> THEN <<>>
    ELSE LET brk == {i \in 1..Len(text) : text[i] \in {10, 13}}
         IN  IF brk = {} THEN <<text>>
             ELSE LET i == CHOOSE b \in brk : \A c \in brk : b <= c
                      j == IF text[i] = 13 /\ i < Len(text) /\ text[i + 1] = 10
                           THEN i + 1 ELSE i
                  IN  <<SubSeq(text, 1, i - 1)>> \o SplitLines(SubSeq(text, j + 1, Len(text)))

\* the orders in which a walk may yield the paths of a set (os.scandir order)
Orders(S) ==
    {o \in [1..Cardinality(S) -> S] : \A i, j \in 1..Cardinality(S) : o[i] = o[j] => i = j}

(***************************************************************************)
(* Errors: the exception an operation ended with.                          *)
(***************************************************************************)
Err(kind, named, file, index) ==
    [kind |-> kind, named |-> named, file |-> file, index |-> index]

NoErr == Err("none", FALSE, <<>>, -1)

(***************************************************************************)
(* The state.                                                              *)
(*   dirs  the two directories D (input) and E (output)                    *)
(*   spk   the archive file                                                *)
(*   made  how the archive file came to its present content (history)      *)
(*   pk    the running or last pack() call: its locals and outcome         *)
(*   ex    the running or last extract() call: its locals and outcome      *)
(*   sz    the size-level packer (specification SizeSpec)                  *)
(***************************************************************************)
IdlePk ==
    [pc |-> "idle", dir |-> "D", files |-> <<>>, listed |-> <<>>, entries |-> <<>>,
     k |-> 0, index_offset |-> Big(0), err |-> NoErr]

IdleEx ==
    [pc |-> "idle", overwrite |-> FALSE, num_files |-> 0, offset |-> 0, i |-> 0,
     files |-> <<>>, wrote |-> <<>>, pre |-> NoDir, err |-> NoErr]

NotMade == [kind |-> "none", src |-> NoFiles]

SzOff == [pc |-> "off", todo |-> <<>>, entries |-> <<>>, tell |-> Big(0),
          num_files |-> Big(0), index_offset |-> Big(0)]

Running == pk.pc \in {"payload", "index"} \/ ex.pc \in {"header", "entry"}

\* the directories D can be at the start: at most MaxFiles files, perhaps a manifest
StartFiles ==
    {f \in UNION {[S -> Contents] : S \in SUBSET UserNames} :
        Cardinality(DOMAIN f) <= MaxFiles}

StartDirs ==
    StartFiles \cup {Put(f, MANIFEST, JoinLines(m)) : f \in StartFiles, m \in ManifestOpts}

Init ==
    /\ \E f \in StartDirs, e \in {NoDir, [exists |-> TRUE, files |-> Put(NoFiles, NameZ, <<7>>)]} :
           dirs = [d \in DirNames |-> IF d = "D" THEN [exists |-> TRUE, files |-> f] ELSE e]
    /\ spk = [exists |-> FALSE, bytes |-> <<>>]
    /\ made = NotMade
    /\ pk = IdlePk
    /\ ex = IdleEx
    /\ ops = 0
    /\ edits = 0
    /\ sz = SzOff

(***************************************************************************)
(* pack(dir_path, spk_path, overwrite)                                     *)
(***************************************************************************)
\* helper.py:90-96: the list the manifest gives, empty without a manifest
ManifestFiles(dir) ==
    IF dir.exists /\ MANIFEST \in DOMAIN dir.files
    THEN SplitLines(dir.files[MANIFEST]) ELSE <<>>

\* helper.py:98-104: the walked paths that are appended to the list
NewFiles(dir, listed) ==
    {n \in Walk(dir) : LastComponent(n) # MANIFEST /\ n \notin Range(listed)}

\* helper.py:114-120: the entry of a file, from the lengths and the write position
PackEntry(name_len, tell, data_len, compress_len) ==
    SPKEntryHeader(1, name_len + 1, tell, data_len, compress_len)

\* f.seek(0); f.write(header): the first bytes replaced
Overwrite(bytes, header) ==
    header \o SubSeq(bytes, Len(header) + 1, Len(bytes))

\* helper.py:128-133: the final header
FinalHeader(num_files, index_offset) == SPKHeader(Signature, 1, num_files, index_offset)

\* helper.py:84-86: the archive exists and overwrite is off
PackRefuse(overwrite) ==
    /\ ~Running /\ ops < MaxOps
    /\ spk.exists /\ ~overwrite
    /\ pk' = [IdlePk EXCEPT !.pc = "failed",
                            !.err = Err("FileExists", FALSE, <<>>, -1)]
    /\ ex' = IdleEx
    /\ ops' = ops + 1
    /\ UNCHANGED <<dirs, spk, made, edits, sz>>

\* helper.py:84-108: the old archive removed, the file list built, the archive
\* created and the placeholder header written
PackStart(d, overwrite) ==
    /\ ~Running /\ ops < MaxOps
    /\ spk.exists => overwrite
    /\ LET listed == ManifestFiles(dirs[d])
       IN  \E order \in Orders(NewFiles(dirs[d], listed)) :
               pk' = [IdlePk EXCEPT !.pc = "payload", !.dir = d, !.listed = listed,
                                    !.files = listed \o order]
    /\ spk' = [exists |-> TRUE, bytes |-> SPKHeaderDefault]
    /\ made' = [kind |-> "partial", src |-> dirs[d].files]
    /\ ex' = IdleEx
    /\ ops' = ops + 1
    /\ UNCHANGED <<dirs, edits, sz>>

\* helper.py:109-122: one file read, compressed, its entry recorded, its payload written
PackPayload ==
    /\ pk.pc = "payload" /\ Len(pk.entries) < Len(pk.files)
    /\ LET rel_path == pk.files[Len(pk.entries) + 1]
           dir == dirs[pk.dir]
       IN  /\ dir.exists /\ rel_path \in DOMAIN dir.files
           /\ LET data == dir.files[rel_path]
                  compress_data == Compress(data)
                  entry == PackEntry(Len(rel_path), Big(Len(spk.bytes)),
                                     Big(Len(data)), Big(Len(compress_data)))
              IN  /\ pk' = [pk EXCEPT !.entries = Append(@, entry)]
                  /\ spk' = [spk EXCEPT !.bytes = @ \o compress_data]
    /\ UNCHANGED <<dirs, made, ex, ops, edits, sz>>

\* helper.py:111: open() of a listed file that is not there raises; the with block
\* closes the archive as it is
PackOpenFail ==
    /\ pk.pc = "payload" /\ Len(pk.entries) < Len(pk.files)
    /\ LET rel_path == pk.files[Len(pk.entries) + 1]
           dir == dirs[pk.dir]
       IN  /\ ~(dir.exists /\ rel_path \in DOMAIN dir.files)
           /\ pk' = [pk EXCEPT !.pc = "failed", !.err = Err("OSError", TRUE, rel_path, -1)]
    /\ made' = [made EXCEPT !.kind = "aborted"]
    /\ UNCHANGED <<dirs, spk, ex, ops, edits, sz>>

\* helper.py:123: the position after the last payload
PackIndexOffset ==
    /\ pk.pc = "payload" /\ Len(pk.entries) = Len(pk.files)
    /\ pk' = [pk EXCEPT !.pc = "index", !.index_offset = Big(Len(spk.bytes))]
    /\ UNCHANGED <<dirs, spk, made, ex, ops, edits, sz>>

\* helper.py:124-126: one entry header and its name written
PackIndexEntry ==
    /\ pk.pc = "index" /\ pk.k < Len(pk.files)
    /\ spk' = [spk EXCEPT !.bytes = @ \o EntryBytes(pk.entries[pk.k + 1])
                                      \o pk.files[pk.k + 1] \o <<0>>]
    /\ pk' = [pk EXCEPT !.k = @ + 1]
    /\ UNCHANGED <<dirs, made, ex, ops, edits, sz>>

\* helper.py:127-133: the header written over the placeholder
PackHeader ==
    /\ pk.pc = "index" /\ pk.k = Len(pk.files)
    /\ spk' = [spk EXCEPT !.bytes =
                   Overwrite(@, FinalHeader(Big(Len(pk.entries)), pk.index_offset))]
    /\ pk' = [pk EXCEPT !.pc = "done"]
    /\ made' = [made EXCEPT !.kind = "packed"]
    /\ UNCHANGED <<dirs, ex, ops, edits, sz>>

(***************************************************************************)
(* extract(spk_path, dir_path, overwrite), into directory E                *)
(***************************************************************************)
ExFail(e) == [ex EXCEPT !.pc = "failed", !.err = e]

\* helper.py:42-44: the directory exists and overwrite is off
ExtractRefuse(overwrite) ==
    /\ ~Running /\ ops < MaxOps
    /\ dirs["E"].exists /\ ~overwrite
    /\ ex' = [IdleEx EXCEPT !.pc = "failed", !.pre = dirs["E"],
                            !.err = Err("DirExists", FALSE, <<>>, -1)]
    /\ pk' = IdlePk
    /\ ops' = ops + 1
    /\ UNCHANGED <<dirs, spk, made, edits, sz>>

\* the directory is not cleared before the extraction
ExtractStartKeep(overwrite) ==
    /\ ~Running /\ ops < MaxOps
    /\ dirs["E"].exists => overwrite
    /\ dirs' = [dirs EXCEPT !["E"].exists = TRUE]
    /\ ex' = [IdleEx EXCEPT !.pc = "header", !.overwrite = overwrite, !.pre = dirs["E"]]
    /\ pk' = IdlePk
    /\ ops' = ops + 1
    /\ UNCHANGED <<spk, made, edits, sz>>

\* helper.py:42-49: the directory removed if there, and created empty
ExtractStart(overwrite) ==
    /\ ~Running /\ ops < MaxOps
    /\ dirs["E"].exists => overwrite
    /\ dirs' = [dirs EXCEPT !["E"] = [exists |-> TRUE, files |-> NoFiles]]
    /\ ex' = [IdleEx EXCEPT !.pc = "header", !.overwrite = overwrite, !.pre = dirs["E"]]
    /\ pk' = IdlePk
    /\ ops' = ops + 1
    /\ UNCHANGED <<spk, made, edits, sz>>

\* the fields of the archive header, each at its offset in the structure
HeaderOf(bytes) ==
    [signature |-> SubSeq(bytes, 1, SPKHeaderFields[1]),
     version |-> U16At(bytes, FieldAt(SPKHeaderFields, 2)),
     num_files |-> U32At(bytes, FieldAt(SPKHeaderFields, 3)),
     index_offset |-> U32At(bytes, FieldAt(SPKHeaderFields, 4))]

\* the version is checked before the signature
ExtractHeaderVersionFirst ==
    /\ ex.pc = "header"
    /\ ex' = IF ~spk.exists
             THEN ExFail(Err("OSError", FALSE, <<>>, -1))
             ELSE IF Len(ReadAt(spk.bytes, 0, HeaderSize)) # HeaderSize
             THEN ExFail(Err("ReadFailed", FALSE, <<>>, -1))
             ELSE IF HeaderOf(spk.bytes).version # 1
             THEN ExFail(Err("BadVersion", FALSE, <<>>, -1))
             ELSE IF SigValue(spk.bytes) # Signature
             THEN ExFail(Err("BadSignature", FALSE, <<>>, -1))
             ELSE [ex EXCEPT !.pc = "entry", !.num_files = HeaderOf(spk.bytes).num_files,
                             !.offset = HeaderOf(spk.bytes).index_offset]
    /\ UNCHANGED <<dirs, spk, made, pk, ops, edits, sz>>

\* helper.py:50-56: the archive opened, its header read and validated
ExtractHeader ==
    /\ ex.pc = "header"
    /\ ex' = IF ~spk.exists
             THEN ExFail(Err("OSError", FALSE, <<>>, -1))
             ELSE IF Len(ReadAt(spk.bytes, 0, HeaderSize)) # HeaderSize
             THEN ExFail(Err("ReadFailed", FALSE, <<>>, -1))
             ELSE IF SigValue(spk.bytes) # Signature
             THEN ExFail(Err("BadSignature", FALSE, <<>>, -1))
             ELSE IF HeaderOf(spk.bytes).version # 1
             THEN ExFail(Err("BadVersion", FALSE, <<>>, -1))
             ELSE [ex EXCEPT !.pc = "entry", !.num_files = HeaderOf(spk.bytes).num_files,
                             !.offset = HeaderOf(spk.bytes).index_offset]
    /\ UNCHANGED <<dirs, spk, made, pk, ops, edits, sz>>

\* the fields of the entry header read at an offset, each at its offset in the structure
EntryOf(bytes, offset) ==
    LET head == ReadAt(bytes, offset, EntrySize)
    IN  [version |-> U16At(head, FieldAt(SPKEntryHeaderFields, 1)),
         filename_size |-> U16At(head, FieldAt(SPKEntryHeaderFields, 2)),
         offset |-> U32At(head, FieldAt(SPKEntryHeaderFields, 3)),
         file_size |-> U32At(head, FieldAt(SPKEntryHeaderFields, 4)),
         compress_size |-> U32At(head, FieldAt(SPKEntryHeaderFields, 5))]

\* helper.py:58-69: what one pass of the loop reads and decides, before it writes
ReadEntry(bytes, offset, i) ==
    LET head == ReadAt(bytes, offset, EntrySize)
        entry_header == EntryOf(bytes, offset)
    IN  IF Len(head) # EntrySize
        THEN [err |-> Err("ReadFailed", FALSE, <<>>, i)]
        ELSE IF entry_header.version # 1
        THEN [err |-> Err("BadEntryVersion", FALSE, <<>>, i)]
        ELSE LET filename_size == entry_header.filename_size
                 filename == RStripNul(ReadAt(bytes, offset + EntrySize, filename_size))
                 file_size == entry_header.file_size
                 res == Decompress(ReadAt(bytes, entry_header.offset,
                                          entry_header.compress_size))
             IN  IF ~res.ok
                 THEN [err |-> Err("ZlibError", FALSE, <<>>, -1)]
                 ELSE IF Len(res.data) # file_size
                 THEN [err |-> Err("SizeMismatch", TRUE, filename, -1)]
                 ELSE IF filename = <<>> \/ HasNul(filename)
                 THEN [err |-> Err("OSError", TRUE, filename, -1)]
                 ELSE [err |-> NoErr, filename |-> filename, data |-> res.data,
                       file_size |-> file_size,
                       next |-> offset + filename_size + EntrySize]

\* helper.py:57-74: one entry read, checked and written
ExtractEntry ==
    /\ ex.pc = "entry" /\ ex.i < ex.num_files
    /\ LET r == ReadEntry(spk.bytes, ex.offset, ex.i)
       IN  IF r.err # NoErr
           THEN /\ ex' = ExFail(r.err)
                /\ dirs' = dirs
           ELSE /\ dirs' = [dirs EXCEPT !["E"].files = Put(@, r.filename, r.data)]
                /\ ex' = [ex EXCEPT !.i = @ + 1, !.offset = r.next,
                                    !.files = Append(@, r.filename),
                                    !.wrote = Append(@, [name |-> r.filename,
                                                         data |-> r.data,
                                                         file_size |-> r.file_size,
                                                         at |-> ex.offset])]
    /\ UNCHANGED <<spk, made, pk, ops, edits, sz>>

\* the manifest is written while entries remain
ExtractManifestEarly ==
    /\ ex.pc = "entry"
    /\ dirs' = [dirs EXCEPT !["E"].files = Put(@, MANIFEST, JoinLines(ex.files))]
    /\ ex' = [ex EXCEPT !.pc = "done"]
    /\ UNCHANGED <<spk, made, pk, ops, edits, sz>>

\* helper.py:76-77: the manifest written after the loop
ExtractManifest ==
    /\ ex.pc = "entry" /\ ex.i >= ex.num_files
    /\ dirs' = [dirs EXCEPT !["E"].files = Put(@, MANIFEST, JoinLines(ex.files))]
    /\ ex' = [ex EXCEPT !.pc = "done"]
    /\ UNCHANGED <<spk, made, pk, ops, edits, sz>>

(***************************************************************************)
(* What happens to the files between two calls.                            *)
(***************************************************************************)
\* The files change between two calls, before the last call of a behaviour:
\* either files of the extracted directory are added and removed, or the archive
\* that pack left is damaged once.
Quiet == ~Running /\ ops = MaxOps - 1

\* a file added to the extracted directory
AddFile(name, data) ==
    /\ Quiet /\ edits < MaxEdits /\ made.kind # "damaged"
    /\ dirs["E"].exists /\ name \notin DOMAIN dirs["E"].files
    /\ dirs' = [dirs EXCEPT !["E"].files = Put(@, name, data)]
    /\ edits' = edits + 1
    /\ pk' = IdlePk /\ ex' = IdleEx
    /\ UNCHANGED <<spk, made, ops, sz>>

\* a file removed from the extracted directory
RemoveFile(name) ==
    /\ Quiet /\ edits < MaxEdits /\ made.kind # "damaged"
    /\ dirs["E"].exists /\ name \in DOMAIN dirs["E"].files
    /\ dirs' = [dirs EXCEPT !["E"].files = Drop(@, {name})]
    /\ edits' = edits + 1
    /\ pk' = IdlePk /\ ex' = IdleEx
    /\ UNCHANGED <<spk, made, ops, sz>>

\* the archive that pack left is damaged: one byte of it changed
Corrupt(i, v) ==
    /\ Quiet /\ edits = 0 /\ made.kind \in {"packed", "aborted"}
    /\ i \in 1..Len(spk.bytes) /\ spk.bytes[i] # v
    /\ spk' = [spk EXCEPT !.bytes[i] = v]
    /\ made' = [made EXCEPT !.kind = "damaged"]
    /\ pk' = IdlePk /\ ex' = IdleEx
    /\ UNCHANGED <<dirs, ops, edits, sz>>

\* the archive that pack left is damaged: it is cut short
Truncate(n) ==
    /\ Quiet /\ edits = 0 /\ made.kind \in {"packed", "aborted"}
    /\ n < Len(spk.bytes)
    /\ spk' = [spk EXCEPT !.bytes = SubSeq(@, 1, n)]
    /\ made' = [made EXCEPT !.kind = "damaged"]
    /\ pk' = IdlePk /\ ex' = IdleEx
    /\ UNCHANGED <<dirs, ops, edits, sz>>

CorruptValues == {0, 1}

Next ==
    \/ \E o \in BOOLEAN : PackRefuse(o)
    \/ \E d \in DirNames, o \in BOOLEAN : PackStart(d, o)
    \/ PackPayload
    \/ PackOpenFail
    \/ PackIndexOffset
    \/ PackIndexEntry
    \/ PackHeader
    \/ \E o \in BOOLEAN : ExtractRefuse(o)
    \/ \E o \in BOOLEAN : ExtractStart(o)
    \/ ExtractHeader
    \/ ExtractEntry
    \/ ExtractManifest
    \/ \E n \in UserNames, c \in Contents : AddFile(n, c)
    \/ \E n \in UserNames : RemoveFile(n)
    \/ \E i \in 1..Len(spk.bytes), v \in CorruptValues : Corrupt(i, v)
    \/ \E n \in 0..Len(spk.bytes) : Truncate(n)

Spec == Init /\ [][Next]_vars

(***************************************************************************)
(* The packer at the level of sizes: pack()'s arithmetic on the lengths of *)
(* the names, of the files and of their compressed payloads, for files     *)
(* too large to write down byte by byte.  tell is f.tell(), a Python       *)
(* integer (unbounded); an entry and the header hold what their            *)
(* fixed-width fields keep of it.                                          *)
(***************************************************************************)
\* a file to pack: the byte length of its path, of its data, of its payload
SizeFile(name_len, file_size, compress_size) ==
    [name_len |-> name_len, file_size |-> file_size, compress_size |-> compress_size]

\* 5 bytes; an empty file; a path of 65535 bytes; 4 GiB of zeros (4 MiB compressed);
\* 4 GiB + 5 bytes that do not compress; 2 GiB that do not compress
SizeFiles ==
    {SizeFile(3, Big(5), Big(13)), SizeFile(3, Big(0), Big(8)),
     SizeFile(65535, Big(5), Big(13)), SizeFile(3, <<65536, 0>>, <<64, 0>>),
     SizeFile(3, <<65536, 5>>, <<65537, 0>>), SizeFile(3, <<32768, 0>>, <<32768, 20>>)}

SizeInit ==
    /\ dirs = [d \in DirNames |-> NoDir]
    /\ spk = [exists |-> FALSE, bytes |-> <<>>]
    /\ made = NotMade
    /\ pk = IdlePk
    /\ ex = IdleEx
    /\ ops = 0
    /\ edits = 0
    /\ \E n \in 0..MaxSizeFiles : \E todo \in [1..n -> SizeFiles] :
           sz = [SzOff EXCEPT !.pc = "payload", !.todo = todo, !.tell = Big(HeaderSize)]

\* helper.py:108-122 on sizes: the entry recorded, the payload written
SizePayload ==
    /\ sz.pc = "payload" /\ Len(sz.entries) < Len(sz.todo)
    /\ LET f == sz.todo[Len(sz.entries) + 1]
       IN  sz' = [sz EXCEPT
                    !.entries = Append(@, PackEntry(f.name_len, sz.tell, f.file_size,
                                                    f.compress_size)),
                    !.tell = BigAdd(@, f.compress_size)]
    /\ UNCHANGED mainVars

\* helper.py:123-133 on sizes: the fields of the final header
SizeHeader ==
    /\ sz.pc = "payload" /\ Len(sz.entries) = Len(sz.todo)
    /\ sz' = [sz EXCEPT !.pc = "done",
                        !.num_files = c_uint32(Big(Len(sz.entries))),
                        !.index_offset = c_uint32(sz.tell)]
    /\ UNCHANGED mainVars

SizeNext == SizePayload \/ SizeHeader

SizeSpec == SizeInit /\ [][SizeNext]_vars

(***************************************************************************)
(* The archive read as the layout defines it (helper.py:9-28, 56-63): the  *)
(* header fields, and the index as the entry headers and names found from  *)
(* index_offset on, each entry 16 + filename_size bytes after the last.    *)
(***************************************************************************)
RECURSIVE IndexFrom(_, _, _)
IndexFrom(bytes, offset, n) ==
    IF n = 0 \/ Len(ReadAt(bytes, offset, EntrySize)) # EntrySize THEN <<>>
    ELSE LET e == EntryOf(bytes, offset)
         IN  <<[at |-> offset, version |-> e.version,
                filename_size |-> e.filename_size, offset |-> e.offset,
                file_size |-> e.file_size, compress_size |-> e.compress_size,
                filename |-> RStripNul(ReadAt(bytes, offset + EntrySize, e.filename_size))]>>
             \o IndexFrom(bytes, offset + EntrySize + e.filename_size, n - 1)

ArchiveIndex(bytes) ==
    IF Len(bytes) < HeaderSize THEN <<>>
    ELSE IndexFrom(bytes, HeaderOf(bytes).index_offset, HeaderOf(bytes).num_files)

IndexNames(bytes) == [i \in 1..Len(ArchiveIndex(bytes)) |-> ArchiveIndex(bytes)[i].filename]

\* the directory that a sequence of file writes leaves, starting from an empty one
RECURSIVE Replay(_)
Replay(wrote) ==
    IF wrote = <<>> THEN NoFiles
    ELSE Put(Replay(SubSeq(wrote, 1, Len(wrote) - 1)),
             wrote[Len(wrote)].name, wrote[Len(wrote)].data)

NoRepeat(s) == \A i, j \in 1..Len(s) : s[i] = s[j] => i = j

\* extract() got as far as reading the archive header
ReadHeader == ex.pc \in {"entry", "done", "failed"} /\ ex.err.kind # "DirExists"

(***************************************************************************)
(* Claims.                                                                 *)
(***************************************************************************)
\* every file of a packed directory is either found by the walk or named by its manifest
AllPacked(src) ==
    \A n \in DOMAIN src \ {MANIFEST} :
        \/ n \in Range(ManifestFiles([exists |-> TRUE, files |-> src]))
        \/ (MatchesStarDotStar(LastComponent(n)) /\ LastComponent(n) # MANIFEST)

\* C1: round trip.  After pack(D, A) and extract(A, E) the relative paths of E,
\* the manifest aside, are those of D and every file has the content it had in D.
C1_RoundTrip ==
    (ex.pc = "done" /\ made.kind = "packed") =>
        Drop(dirs["E"].files, {MANIFEST}) = Drop(made.src, {MANIFEST})

\* C1, what the code does keep: the round trip of the files that the walk finds
\* or the manifest names.
C1_RoundTripOfPackedFiles ==
    (ex.pc = "done" /\ made.kind = "packed" /\ AllPacked(made.src)) =>
        Drop(dirs["E"].files, {MANIFEST}) = Drop(made.src, {MANIFEST})

\* C2: re-pack order.  Packing a directory that holds a manifest gives an archive
\* whose entries are the manifest's paths in the manifest's order, followed by
\* every other regular file of the directory (the manifest aside), each once.
C2_RepackOrder ==
    (pk.pc = "done" /\ MANIFEST \in DOMAIN made.src) =>
        LET names == IndexNames(spk.bytes)
            listed == SplitLines(made.src[MANIFEST])
            tail == SubSeq(names, Len(listed) + 1, Len(names))
        IN  /\ Len(names) >= Len(listed)
            /\ SubSeq(names, 1, Len(listed)) = listed
            /\ NoRepeat(tail)
            /\ Range(tail) = DOMAIN made.src \ ({MANIFEST} \cup Range(listed))

\* C2, what the code does keep: the manifest's paths first and in order, then the
\* files that the walk finds and the manifest does not name, each once.
C2_RepackOrderOfWalk ==
    (pk.pc = "done" /\ MANIFEST \in DOMAIN made.src) =>
        LET names == IndexNames(spk.bytes)
            listed == SplitLines(made.src[MANIFEST])
            tail == SubSeq(names, Len(listed) + 1, Len(names))
        IN  /\ Len(names) >= Len(listed)
            /\ SubSeq(names, 1, Len(listed)) = listed
            /\ NoRepeat(tail)
            /\ Range(tail) = NewFiles([exists |-> TRUE, files |-> made.src], listed)

\* the true position of the i-th payload: the header size and the payloads before it
RECURSIVE TrueOffset(_, _)
TrueOffset(todo, i) ==
    IF i = 1 THEN Big(HeaderSize)
    ELSE BigAdd(TrueOffset(todo, i - 1), todo[i - 1].compress_size)

\* C3: archive layout after a successful pack of f_1..f_n.  The first payload
\* starts at the header size, each next one where the last ended, index_offset
\* is the end of the last payload (the header size when n = 0), num_files = n,
\* the i-th entry describes f_i, and every payload lies between the header and
\* the index.
C3_Layout ==
    sz.pc = "done" =>
        LET e == sz.entries
            n == Len(sz.entries)
        IN  /\ sz.num_files = Big(n) /\ n = Len(sz.todo)
            /\ n > 0 => e[1].offset = Big(HeaderSize)
            /\ \A i \in 1..(n - 1) :
                   e[i + 1].offset = BigAdd(e[i].offset, e[i].compress_size)
            /\ sz.index_offset = IF n = 0 THEN Big(HeaderSize)
                                 ELSE BigAdd(e[n].offset, e[n].compress_size)
            /\ \A i \in 1..n :
                   /\ e[i].version = 1
                   /\ e[i].file_size = sz.todo[i].file_size
                   /\ e[i].compress_size = sz.todo[i].compress_size
                   /\ BigLeq(Big(HeaderSize), e[i].offset)
                   /\ BigLeq(BigAdd(e[i].offset, e[i].compress_size), sz.index_offset)

\* C3, what the code does keep: the same layout, read from the bytes of the
\* archive, for files whose sizes and positions fit the fields.
C3_LayoutOfArchive ==
    pk.pc = "done" =>
        LET h == HeaderOf(spk.bytes)
            e == ArchiveIndex(spk.bytes)
            n == Len(pk.files)
            src == dirs[pk.dir].files
        IN  /\ h.signature = Signature /\ h.version = 1
            /\ h.num_files = n /\ Len(e) = n
            /\ n > 0 => e[1].offset = HeaderSize
            /\ \A i \in 1..(n - 1) : e[i + 1].offset = e[i].offset + e[i].compress_size
            /\ h.index_offset = IF n = 0 THEN HeaderSize
                                ELSE e[n].offset + e[n].compress_size
            /\ n > 0 => e[n].at + EntrySize + e[n].filename_size = Len(spk.bytes)
            /\ \A i \in 1..n :
                   /\ e[i].version = 1
                   /\ e[i].filename = pk.files[i]
                   /\ e[i].filename_size = Len(pk.files[i]) + 1
                   /\ e[i].file_size = Len(src[pk.files[i]])
                   /\ ReadAt(spk.bytes, e[i].offset, e[i].compress_size)
                          = Compress(src[pk.files[i]])
                   /\ HeaderSize <= e[i].offset
                   /\ e[i].offset + e[i].compress_size <= h.index_offset

\* the bytes the index holds after k entries: each header and its name with a NUL
RECURSIVE IndexBytes(_, _, _)
IndexBytes(files, k, entry_size) ==
    IF k = 0 THEN 0
    ELSE IndexBytes(files, k - 1, entry_size) + entry_size + Len(files[k]) + 1

ToInt(v) == v[1] * B16 + v[2]

\* the sizes of the two structures, as pack writes them and extract reads them
SizesAre(header_size, entry_size) ==
    /\ (pk.pc = "payload" /\ pk.entries = <<>>) => Len(spk.bytes) = header_size
    /\ (pk.pc \in {"payload", "index", "done"} /\ pk.entries # <<>>) =>
           pk.entries[1].offset = Big(header_size)
    /\ pk.pc = "index" =>
           Len(spk.bytes) = ToInt(pk.index_offset) + IndexBytes(pk.files, pk.k, entry_size)
    /\ (ReadHeader /\ spk.exists) =>
           ((ex.err.kind = "ReadFailed" /\ ex.err.index = -1) <=> Len(spk.bytes) < header_size)
    /\ \A j \in 2..Len(ex.wrote) :
           ex.wrote[j].at = ex.wrote[j - 1].at + entry_size
                                + U16At(spk.bytes, ex.wrote[j - 1].at + 2)

\* C4 as stated: the archive header occupies 15 bytes and an entry header 16; the
\* first payload starts at offset 15 and extract rejects as truncated (on the
\* header) exactly the inputs shorter than 15 bytes.
C4_HeaderIs15 == SizesAre(15, 16)

\* C4 as amended: the archive header occupies 16 bytes and an entry header 16; the
\* first payload starts at offset 16 and extract rejects as truncated (on the
\* header) exactly the inputs shorter than 16 bytes.
C4_HeaderIs16 == SizesAre(16, 16)

\* a 15-byte archive, rejected as truncated
C4_Witness ==
    /\ ReadHeader /\ spk.exists /\ Len(spk.bytes) = 15
    /\ ex.err.kind = "ReadFailed" /\ ex.err.index = -1

\* C5: extract into an existing directory.  Without overwrite it fails with the
\* destination-exists error and the directory and its files are as before; with
\* overwrite and success the directory holds exactly the archive's files and
\* the manifest, and no other file it held before.
C5_ExtractOverwrite ==
    /\ (ex.pc # "idle" /\ ex.pre.exists /\ ~ex.overwrite) =>
           (ex.pc = "failed" /\ ex.err.kind = "DirExists" /\ dirs["E"] = ex.pre)
    /\ (ex.pc = "done" /\ ex.overwrite) =>
           LET names == Range(IndexNames(spk.bytes))
           IN  /\ DOMAIN dirs["E"].files = names \cup {MANIFEST}
               /\ \A n \in DOMAIN ex.pre.files :
                      n \in DOMAIN dirs["E"].files => n \in names \cup {MANIFEST}

\* an archive with a file extracted over a directory that held another file
C5_Witness ==
    /\ ex.pc = "done" /\ ex.overwrite /\ ex.pre.exists
    /\ ex.files # <<>>
    /\ \E n \in DOMAIN ex.pre.files : n \notin DOMAIN dirs["E"].files

\* extract() failed inside the loop, on the entry at ex.offset
FailedInLoop == ex.pc = "failed" /\ ex.i < ex.num_files

FailedEntry == IndexFrom(spk.bytes, ex.offset, 1)

\* the payload of an entry does not decompress, or not to file_size bytes
BadPayload(e) ==
    LET res == Decompress(ReadAt(spk.bytes, e.offset, e.compress_size))
    IN  ~res.ok \/ Len(res.data) # e.file_size

\* what extract has written is what the entries' payloads decompress to, each of
\* the length its entry declares
WroteSound ==
    /\ \A j \in 1..Len(ex.wrote) :
           LET e == IndexFrom(spk.bytes, ex.wrote[j].at, 1)[1]
               res == Decompress(ReadAt(spk.bytes, e.offset, e.compress_size))
           IN  /\ res.ok /\ res.data = ex.wrote[j].data
               /\ Len(ex.wrote[j].data) = e.file_size
               /\ ex.wrote[j].name = e.filename
    /\ (ex.pc \in {"entry", "failed"} /\ ex.err.kind # "DirExists") =>
           (dirs["E"].exists /\ dirs["E"].files = Replay(ex.wrote))

\* C6: payload integrity.  A file is written only if its payload decompresses to
\* exactly file_size bytes; when the length differs or the payload is corrupted,
\* extract fails with an error that names the file, the file is not written and
\* no file of a wrong length is in the output directory.
C6_PayloadIntegrity ==
    /\ WroteSound
    /\ (FailedInLoop /\ FailedEntry # <<>> /\ FailedEntry[1].version = 1
            /\ BadPayload(FailedEntry[1])) =>
           /\ ex.err.named /\ ex.err.file = FailedEntry[1].filename
           /\ Len(ex.wrote) = ex.i

\* C6, what the code does keep: a wrong length fails with the size-mismatch error
\* naming the file, a payload that does not decompress fails with zlib's own
\* error, which names no file; either way nothing is written for the entry.
C6_PayloadIntegrityAsCoded ==
    /\ WroteSound
    /\ (FailedInLoop /\ FailedEntry # <<>> /\ FailedEntry[1].version = 1
            /\ BadPayload(FailedEntry[1])) =>
           LET e == FailedEntry[1]
               res == Decompress(ReadAt(spk.bytes, e.offset, e.compress_size))
           IN  /\ res.ok => (ex.err.kind = "SizeMismatch" /\ ex.err.named
                                /\ ex.err.file = e.filename)
               /\ ~res.ok => (ex.err.kind = "ZlibError" /\ ~ex.err.named)
               /\ Len(ex.wrote) = ex.i

C8_NoSilentTruncation ==
    \/ sz.pc = "failed"
    \/ /\ \A i \in 1..Len(sz.entries) :
              /\ sz.entries[i].filename_size = sz.todo[i].name_len + 1
              /\ sz.entries[i].offset = TrueOffset(sz.todo, i)
              /\ sz.entries[i].file_size = sz.todo[i].file_size
              /\ sz.entries[i].compress_size = sz.todo[i].compress_size
       /\ sz.pc = "done" =>
              (sz.index_offset = sz.tell /\ sz.num_files = Big(Len(sz.todo)))

\* where the i-th entry header (counted from 0) lies: index_offset plus the sizes
\* of the entry headers and names before it
RECURSIVE Cursor(_, _)
Cursor(bytes, i) ==
    IF i = 0 THEN HeaderOf(bytes).index_offset
    ELSE Cursor(bytes, i - 1) + 16 + U16At(bytes, Cursor(bytes, i - 1) + 2)

WroteNames == [j \in 1..Len(ex.wrote) |-> ex.wrote[j].name]

\* C9: extract's order.  Entry i is read at index_offset plus the sum of
\* 16 + filename_size over the entries before it, entries are written in that
\* order, the manifest is written only after the last entry and lists the
\* extracted paths one per line in that order; when extract aborts at an entry,
\* the files of the entries before it are on disk as written, nothing of a later
\* entry is, and there is no manifest.
C9_ExtractOrder ==
    /\ (ex.pc \in {"entry", "done"} \/ FailedInLoop) =>
           /\ ex.offset = Cursor(spk.bytes, ex.i)
           /\ Len(ex.wrote) = ex.i /\ ex.files = WroteNames
           /\ \A j \in 1..Len(ex.wrote) : ex.wrote[j].at = Cursor(spk.bytes, j - 1)
    /\ (ex.pc \in {"header", "entry"} \/ (ex.pc = "failed" /\ ex.err.kind # "DirExists")) =>
           dirs["E"].files = Replay(ex.wrote)
    /\ ex.pc = "done" =>
           /\ ex.i = ex.num_files
           /\ dirs["E"].files = Put(Replay(ex.wrote), MANIFEST, JoinLines(WroteNames))
           /\ SplitLines(dirs["E"].files[MANIFEST]) = WroteNames

\* extract aborted at the second entry: the first file is there, no manifest is
C9_Witness ==
    /\ FailedInLoop /\ ex.i = 1 /\ ex.num_files = 2
    /\ DOMAIN dirs["E"].files = {ex.wrote[1].name}

\* C10: the header is patched last.  From the creation of the archive to the
\* final write at offset 0 its first bytes are the all-zero placeholder, so an
\* archive starts with '.spk' only once every payload and every index entry is
\* written; extract rejects the archive an aborted pack leaves with the
\* signature error and extracts nothing from it.
C10_HeaderPatchedLast ==
    /\ pk.pc \in {"payload", "index"} => made.kind = "partial"
    /\ made.kind \in {"partial", "aborted"} =>
           /\ spk.exists /\ Len(spk.bytes) >= HeaderSize
           /\ SubSeq(spk.bytes, 1, HeaderSize) = Zeros(HeaderSize)
           /\ SubSeq(spk.bytes, 1, 4) # Signature
    /\ (spk.exists /\ Len(spk.bytes) >= 4 /\ SubSeq(spk.bytes, 1, 4) = Signature
            /\ made.kind # "damaged") =>
           /\ made.kind = "packed"
           /\ LET h == HeaderOf(spk.bytes)
                  e == ArchiveIndex(spk.bytes)
              IN  /\ h.version = 1 /\ Len(e) = h.num_files
                  /\ h.index_offset <= Len(spk.bytes)
                  /\ \A i \in 1..Len(e) :
                         /\ e[i].offset + e[i].compress_size <= h.index_offset
                         /\ e[i].at + 16 + e[i].filename_size <= Len(spk.bytes)
    /\ (made.kind = "aborted" /\ ReadHeader) =>
           /\ ex.pc = "failed" /\ ex.err.kind = "BadSignature"
           /\ ex.wrote = <<>> /\ dirs["E"].files = NoFiles

\* an aborted pack left a payload behind its placeholder; extract rejected it
C10_Witness ==
    /\ made.kind = "aborted" /\ Len(spk.bytes) > HeaderSize
    /\ ex.pc = "failed" /\ ex.err.kind = "BadSignature"

====
